---- MODULE Spec2Model ----
(***************************************************************************)
(* WhatsApp knowledge bot (examples/whatsapp-knowledge-bot/src/bot.py):    *)
(* the webhook handler, the background pipeline run handle_message and the *)
(* four calls it makes (memory-store query, RAG call, gateway send,        *)
(* memory-store write).                                                    *)
(*                                                                         *)
(* A pipeline run is an asyncio coroutine: it is suspended at each await   *)
(* of an external call and everything between two awaits is atomic.  One   *)
(* action models the code from the return of one external call to the      *)
(* issue of the next one.                                                  *)
(*                                                                         *)
(* Time is counted in units of 10^6 seconds (gateway side) so that the     *)
(* values stay inside TLC's integers: 1700 stands for 1700000000 s.        *)
(***************************************************************************)
EXTENDS Integers, Sequences, FiniteSets, TLC

-----------------------------------------------------------------------------
(* Bounds of the model *)

\* background tasks accepted in one behaviour of Spec
MaxTasks == 2
\* scheduled tasks in one behaviour of SpecIngest (no run is started there)
MaxBacklog == 1
\* results in one answer of the memory store
MaxResults == 2

-----------------------------------------------------------------------------
(* Values *)

\* a JSON / Python value that is a str
Str(s) == [type |-> "str", val |-> s]

\* JSON null / Python None
None == [type |-> "NoneType", val |-> ""]

\* str(v) as an f-string formats it
Format(v) == IF v.type = "NoneType" THEN "None" ELSE v.val

\* the sender identifier taken whole
WholeJid(s) == s

\* s.split('@')[0] on a string given as a sequence of characters:
\* everything before the first '@', the whole string when it holds none
RECURSIVE SplitAtFirst(_)
SplitAtFirst(s) ==
  IF s = << >> THEN << >>
  ELSE IF Head(s) = "@" THEN << >>
  ELSE <<Head(s)>> \o SplitAtFirst(Tail(s))

-----------------------------------------------------------------------------
(* Inbound webhook events.  body: what request.json() makes of the POST    *)
(* body ("invalid": it raises; "array": valid JSON that is no object).     *)
(* A field of an object is "absent", or present with a value; "null" is a  *)
(* present field whose value is JSON null.  Fields below an absent or null *)
(* parent are written as absent.                                           *)

Absent == [present |-> FALSE, val |-> << >>]
AbsentText == [present |-> FALSE, val |-> ""]
AbsentTs == [kind |-> "absent", val |-> 0]

Jid51 == <<"5", "1", "@", "s">>
Jid52 == <<"5", "2", "@", "s">>
JidNoId == <<"@", "s">>
JidBare == <<"5", "2">>

\* gateway timestamps: seconds; and milliseconds sent by mistake
TsSeconds == 1700
TsMillis == 1700000

Event(body, event, data, message, conversation, key, fromMe, remoteJid, ts) ==
  [body |-> body, event |-> event, data |-> data, message |-> message,
   conversation |-> conversation, key |-> key, fromMe |-> fromMe,
   remoteJid |-> remoteJid, messageTimestamp |-> ts]

EventTags == {"messages.upsert", "connection.update", "absent"}

\* events whose nested payload is an object
PayloadEvents ==
  { Event("object", e, "object", m.message, m.conversation, k.key, k.fromMe, k.remoteJid, t) :
      e \in EventTags,
      m \in { [message |-> "absent", conversation |-> AbsentText],
              [message |-> "null", conversation |-> AbsentText],
              [message |-> "object", conversation |-> AbsentText],
              [message |-> "object", conversation |-> [present |-> TRUE, val |-> ""]],
              [message |-> "object", conversation |-> [present |-> TRUE, val |-> "hello"]] },
      k \in { [key |-> "absent", fromMe |-> "absent", remoteJid |-> Absent] }
            \cup { [key |-> "object", fromMe |-> f, remoteJid |-> j] :
                     f \in {"absent", "true", "false"},
                     j \in {Absent} \cup { [present |-> TRUE, val |-> v] : v \in {Jid51, JidNoId, JidBare} } },
      t \in { AbsentTs, [kind |-> "int", val |-> TsSeconds], [kind |-> "bad", val |-> 0] } }

\* every shape of event the ingestion claims are about
AllEvents ==
  { Event(b, "absent", "absent", "absent", AbsentText, "absent", "absent", Absent, AbsentTs) :
      b \in {"invalid", "array"} }
  \cup { Event("object", e, d, "absent", AbsentText, "absent", "absent", Absent, AbsentTs) :
           e \in EventTags, d \in {"absent", "null"} }
  \cup PayloadEvents

\* a well-formed new text message from jid with the given timestamp
TextEvent(jid, text, ts) ==
  Event("object", "messages.upsert", "object", "object", [present |-> TRUE, val |-> text],
        "object", "false", [present |-> TRUE, val |-> jid], [kind |-> "int", val |-> ts])

\* the events of the concurrent pipeline specification
SpecEvents ==
  { TextEvent(Jid51, "hello", TsSeconds),
    TextEvent(Jid52, "hello", TsSeconds),
    Event("object", "messages.upsert", "object", "object", [present |-> TRUE, val |-> "hello"],
          "object", "true", [present |-> TRUE, val |-> Jid51], [kind |-> "int", val |-> TsSeconds]),
    Event("object", "connection.update", "object", "absent", AbsentText,
          "absent", "absent", Absent, AbsentTs),
    Event("invalid", "absent", "absent", "absent", AbsentText, "absent", "absent", Absent, AbsentTs) }

-----------------------------------------------------------------------------
(* webhook_handler *)

SuccessAck == [status |-> "success", message |-> ""]
ErrorAck(e) == [status |-> "error", message |-> e]

\* a background task as add_task receives it: handle_message and its arguments
Task(phone, message, timestamp) ==
  [phone |-> phone, message |-> message, timestamp |-> timestamp]

\* the handler with the task added twice
AddTaskTwice(phone, message_text, timestamp) ==
  <<Task(phone, message_text, timestamp * 1000), Task(phone, message_text, timestamp * 1000)>>

\* the handler handing the gateway's seconds on as they are
AddTaskSeconds(phone, message_text, timestamp) == <<Task(phone, message_text, timestamp)>>

\* background_tasks.add_task(bot.handle_message, phone, message_text, int(timestamp) * 1000)
AddTask(phone, message_text, timestamp) == <<Task(phone, message_text, timestamp * 1000)>>

\* the filter without its test of fromMe
IsTextAny(ev) == ev.conversation.present

\* 'conversation' in message_info and not message_data.get('key', {}).get('fromMe')
IsTextFromOther(ev) == ev.conversation.present /\ ev.fromMe # "true"

\* the handler: its acknowledgment and the tasks it hands to background_tasks
webhook_handler(ev) ==
  IF ev.body = "invalid" THEN [ack |-> ErrorAck("JSONDecodeError"), added |-> << >>]
  ELSE IF ev.body = "array" THEN [ack |-> ErrorAck("AttributeError"), added |-> << >>]
  ELSE IF ev.event # "messages.upsert" THEN [ack |-> SuccessAck, added |-> << >>]
  ELSE IF ev.data = "null" THEN [ack |-> ErrorAck("AttributeError"), added |-> << >>]
  ELSE IF ev.message = "null" THEN [ack |-> ErrorAck("TypeError"), added |-> << >>]
  ELSE IF ~ IsTextFromOther(ev)
       THEN [ack |-> SuccessAck, added |-> << >>]
  ELSE LET phone == SplitAtFirst(IF ev.remoteJid.present THEN ev.remoteJid.val ELSE << >>)
           message_text == ev.conversation.val
           timestamp == ev.messageTimestamp
       IN  IF timestamp.kind = "bad"
           THEN [ack |-> ErrorAck("ValueError"), added |-> << >>]
           ELSE [ack |-> SuccessAck,
                 added |-> AddTask(phone, message_text,
                                   IF timestamp.kind = "absent" THEN 0 ELSE timestamp.val)]

-----------------------------------------------------------------------------
(* Calls and their results.  A call returns a value or raises an exception. *)

Return(v) == [raised |-> FALSE, value |-> v, exc |-> ""]
Raise(e) == [raised |-> TRUE, value |-> None, exc |-> e]

\* the classes `except Exception` catches, among those the calls can raise
ExceptionSubclasses ==
  {"ConnectError", "ReadTimeout", "JSONDecodeError", "AttributeError", "TypeError",
   "ValueError", "KeyError", "ServiceUnavailable", "TimeoutError"}

\* try: body / except Exception: return fallback
TryExcept(body, fallback) ==
  IF body.raised /\ body.exc \in ExceptionSubclasses THEN Return(fallback) ELSE body

-----------------------------------------------------------------------------
(* get_conversation_context *)

\* relevance of a result that has no score attribute
DefaultRelevance == "1.0"

\* what graphiti.search returns; lacks: the attributes the object has not,
\* besides score, whose absence is score |-> "absent"
EpisodePlain ==
  [node |-> "EpisodeNode", created_at |-> 1600, content |-> "earlier", score |-> "absent", lacks |-> {}]
EpisodeScored ==
  [node |-> "EpisodeNode", created_at |-> 1650, content |-> "later", score |-> "0.5", lacks |-> {}]
EdgeResult ==
  [node |-> "EntityEdge", created_at |-> 1660, content |-> "fact", score |-> "absent", lacks |-> {}]
EpisodeUndated ==
  [node |-> "EpisodeNode", created_at |-> 0, content |-> "undated", score |-> "absent",
   lacks |-> {"created_at"}]
ResultPool == {EpisodePlain, EpisodeScored, EdgeResult, EpisodeUndated}

SearchRaises(e) == [kind |-> "raise", exc |-> e, results |-> << >>]
SearchReturns(rs) == [kind |-> "results", exc |-> "", results |-> rs]

\* limit: int = 5
DefaultLimit == 5

\* a store that answers with one result more than num_results asked for
SearchOverLimit ==
  SearchReturns([k \in 1..(DefaultLimit + 1) |-> [EpisodePlain EXCEPT !.created_at = @ + k]])

SearchOutcomes ==
  {SearchRaises("ServiceUnavailable"), SearchOverLimit}
  \cup { SearchReturns(rs) : rs \in UNION { [1..n -> ResultPool] : n \in 0..MaxResults } }

\* the arguments of graphiti.search
SearchRequest(phone, limit) ==
  [query |-> <<"user ", phone, " conversations">>, num_results |-> limit]

\* one context item per EpisodeNode among the results, in their order
RECURSIVE ContextItems(_)
ContextItems(results) ==
  IF results = << >> THEN << >>
  ELSE LET result == Head(results)
       IN  (IF result.node = "EpisodeNode"
            THEN << [timestamp |-> result.created_at,
                     content |-> result.content,
                     relevance |-> IF result.score # "absent" THEN result.score
                                   ELSE DefaultRelevance] >>
            ELSE << >>)
           \o ContextItems(Tail(results))

\* the try block: the search, asked for num_results = limit, then one item
\* per EpisodeNode of whatever the search returned
get_conversation_context_try(phone, limit, out) ==
  IF out.kind = "raise" THEN Raise(out.exc)
  ELSE IF \E k \in 1..Len(out.results) :
            /\ out.results[k].node = "EpisodeNode"
            /\ out.results[k].lacks \cap {"created_at", "content"} # {}
       THEN Raise("AttributeError")      \* result.created_at, result.content
  ELSE Return(ContextItems(out.results))

\* the function without its except clause
get_conversation_context_no_except(phone, limit, out) ==
  get_conversation_context_try(phone, limit, out)

get_conversation_context(phone, limit, out) ==
  TryExcept(get_conversation_context_try(phone, limit, out), << >>)

-----------------------------------------------------------------------------
(* process_with_dify *)

\* one apology for every failure of the backend call
OneFallbackText == "Desculpe, nao foi possivel processar sua mensagem no momento."

NoAnswerText == "Desculpe, nao consegui processar sua mensagem."
BackendErrorText == "Desculpe, ocorreu um erro ao processar sua mensagem."
TransportErrorText == "Desculpe, nao foi possivel processar sua mensagem no momento."

\* context[:3]
FirstThree(context) == IF Len(context) <= 3 THEN context ELSE SubSeq(context, 1, 3)

\* context[-3:]
LastThree(context) ==
  IF Len(context) <= 3 THEN context ELSE SubSeq(context, Len(context) - 2, Len(context))

\* the request body with one session identifier for every conversation
DifyPayloadOneSession(message, context, phone) ==
  [inputs |-> [phone |-> phone, conversation_history |-> LastThree(context)],
   query |-> message,
   response_mode |-> "blocking",
   user |-> phone,
   conversation_id |-> <<"whatsapp_">>]

\* the request body sent to the RAG backend
DifyPayload(message, context, phone) ==
  [inputs |-> [phone |-> phone, conversation_history |-> LastThree(context)],
   query |-> message,
   response_mode |-> "blocking",
   user |-> phone,
   conversation_id |-> <<"whatsapp_", phone>>]

\* what the POST to the RAG backend does
DifyRaises(e) ==
  [kind |-> "raise", exc |-> e, status |-> 0, body |-> "none",
   answer |-> [present |-> FALSE, value |-> None]]
DifyResponds(status, body, present, value) ==
  [kind |-> "response", exc |-> "", status |-> status, body |-> body,
   answer |-> [present |-> present, value |-> value]]

DifyOutcomes ==
  { DifyRaises("ConnectError"),
    DifyResponds(200, "object", TRUE, Str("hi there")),
    DifyResponds(200, "object", TRUE, Str("")),
    DifyResponds(200, "object", TRUE, None),
    DifyResponds(200, "object", FALSE, None),
    DifyResponds(200, "unparsable", FALSE, None),
    DifyResponds(201, "object", TRUE, Str("hi there")),
    DifyResponds(500, "object", FALSE, None) }

\* the try block reading result['answer'] in place of result.get('answer', ...)
process_with_dify_try_indexing(message, context, phone, out) ==
  IF out.kind = "raise" THEN Raise(out.exc)
  ELSE IF out.status = 200
       THEN IF out.body = "unparsable" THEN Raise("JSONDecodeError")
            ELSE IF out.answer.present THEN Return(out.answer.value) ELSE Raise("KeyError")
       ELSE Return(Str(BackendErrorText))

\* the try block: the POST, then the branch on response.status_code
process_with_dify_try(message, context, phone, out) ==
  IF out.kind = "raise" THEN Raise(out.exc)
  ELSE IF out.status = 200
       THEN IF out.body = "unparsable" THEN Raise("JSONDecodeError")
            ELSE Return(IF out.answer.present THEN out.answer.value
                        ELSE Str(NoAnswerText))
       ELSE Return(Str(BackendErrorText))

\* the function without its except clause
process_with_dify_no_except(message, context, phone, out) ==
  process_with_dify_try(message, context, phone, out)

process_with_dify(message, context, phone, out) ==
  TryExcept(process_with_dify_try(message, context, phone, out), Str(TransportErrorText))

-----------------------------------------------------------------------------
(* send_whatsapp_message *)

GatewayRaises(e) == [kind |-> "raise", exc |-> e, status |-> 0]
GatewayResponds(status) == [kind |-> "response", exc |-> "", status |-> status]

GatewayOutcomes ==
  {GatewayRaises("ReadTimeout"), GatewayResponds(200), GatewayResponds(201),
   GatewayResponds(204), GatewayResponds(500)}

\* the function with 200 as its only success status
send_whatsapp_message_only_200(phone, message, out) ==
  TryExcept(IF out.kind = "raise" THEN Raise(out.exc)
            ELSE Return(out.status = 200),
            FALSE)

send_whatsapp_message(phone, message, out) ==
  TryExcept(IF out.kind = "raise" THEN Raise(out.exc)
            ELSE Return(out.status \in {200, 201}),
            FALSE)

-----------------------------------------------------------------------------
(* store_interaction *)

\* the last second datetime can represent (year 9999), in the model's unit
MaxDatetimeSeconds == 253402

\* datetime.fromtimestamp(timestamp / 1000); the webhook hands in whole
\* thousands, so the division is exact
FromTimestamp(timestamp) ==
  IF timestamp \div 1000 > MaxDatetimeSeconds THEN Raise("ValueError")
  ELSE Return(timestamp \div 1000)

WriteRaises(e) == [kind |-> "raise", exc |-> e]
WriteReturns == [kind |-> "ok", exc |-> ""]
WriteOutcomes == {WriteRaises("ServiceUnavailable"), WriteReturns}

\* an Episode whose body repeats the user's text in place of the reply
EpisodeUserOnly(phone, user_message, bot_response, timestamp) ==
  [name |-> <<"whatsapp_conversation_", phone, timestamp>>,
   episode_body |-> <<"User (", phone, "): ", user_message, "Bot: ", user_message>>,
   source_description |-> <<"WhatsApp conversation with ", phone>>,
   reference_time |-> timestamp]

\* the arguments of graphiti.add_episode
Episode(phone, user_message, bot_response, timestamp) ==
  [name |-> <<"whatsapp_conversation_", phone, timestamp>>,
   episode_body |-> <<"User (", phone, "): ", user_message, "Bot: ", Format(bot_response)>>,
   source_description |-> <<"WhatsApp conversation with ", phone>>,
   reference_time |-> timestamp]

\* the try block writing the Episode in place of what the store held
store_interaction_try_replacing(store, phone, user_message, bot_response, timestamp, out) ==
  [store |-> IF out.kind = "raise" THEN store
             ELSE <<Episode(phone, user_message, bot_response, timestamp)>>,
   result |-> IF out.kind = "raise" THEN Raise(out.exc) ELSE Return(None)]

\* the try block: the store after graphiti.add_episode, and the block's result
store_interaction_try(store, phone, user_message, bot_response, timestamp, out) ==
  [store |-> IF out.kind = "raise" THEN store
             ELSE Append(store, Episode(phone, user_message, bot_response, timestamp)),
   result |-> IF out.kind = "raise" THEN Raise(out.exc) ELSE Return(None)]

\* the function without its except clause
store_interaction_no_except(store, phone, user_message, bot_response, timestamp, out) ==
  store_interaction_try(store, phone, user_message, bot_response, timestamp, out)

\* the store after the call, and the call's result
store_interaction(store, phone, user_message, bot_response, timestamp, out) ==
  LET try == store_interaction_try(store, phone, user_message, bot_response, timestamp, out)
  IN  [store |-> try.store, result |-> TryExcept(try.result, None)]

-----------------------------------------------------------------------------
(* initialize and startup_event *)

\* what building the driver and the indices of the memory store does
InitializeRaises(at) == [kind |-> "raise", exc |-> "ServiceUnavailable", at |-> at]
InitializeReturns == [kind |-> "ok", exc |-> "", at |-> ""]
InitializeOutcomes ==
  {InitializeRaises("driver"), InitializeRaises("build_indices"), InitializeReturns}

\* initialize with an except clause that logs and does not raise again
initialize_swallows(out) == Return(None)

\* try: driver, Graphiti, build_indices / except Exception: log; raise
initialize(out) == IF out.kind = "raise" THEN Raise(out.exc) ELSE Return(None)

\* the startup handler awaits initialize; what it raises ends the startup
startup_event(out) == initialize(out)

-----------------------------------------------------------------------------
(* get_user_stats and health_check *)

\* limit=100 of the stats endpoint
StatsLimit == 100

\* the whole context, not its first five items
WholeContext(context) == context

\* context[:5]
FirstFive(context) == IF Len(context) <= 5 THEN context ELSE SubSeq(context, 1, 5)

\* GET /stats/{phone}, the search ending as out
get_user_stats(phone, out) ==
  LET context == get_conversation_context(phone, StatsLimit, out)
  IN  IF context.raised THEN [error |-> context.exc]
      ELSE [phone |-> phone,
            total_interactions |-> Len(context.value),
            recent_interactions |-> FirstFive(context.value)]

\* GET /health
health_check ==
  [status |-> "healthy",
   services |-> [evolution_api |-> "EVOLUTION_API_URL", dify |-> "DIFY_API_URL", neo4j |-> "NEO4J_URI"]]

-----------------------------------------------------------------------------
(* SkillGenerator.git_commit_and_push of create_skill.py *)

max_retries == 4
retry_delays == <<2, 4, 8, 16>>

\* a failed push is followed by a wait whatever the attempt
RetryAgainAlways(attempt) == attempt < max_retries

\* if attempt < max_retries - 1, attempt counted from 0
RetryAgain(attempt) == attempt < max_retries - 1

\* the call waiting for subprocess pc, before any push
GitState(pc) ==
  [pc |-> pc,                \* the subprocess the call waits for, or "idle", "returned"
   current_branch |-> "",    \* stdout of git branch --show-current, stripped
   addRc |-> 0,              \* return code of git add, which the code does not read
   commitRc |-> -1,          \* return code of git commit, -1 before it has run
   attempt |-> 0,            \* the loop variable of the push loop
   log |-> << >>]            \* the pushes made and the waits taken, in order

NoGit == GitState("idle")

-----------------------------------------------------------------------------
VARIABLES
  tasks,        \* the background tasks, in the order add_task received them
  episodes,     \* the Episodes of the memory store, in the order they were added
  lastEvent,    \* the event of the latest webhook request
  lastAck,      \* its acknowledgment
  lastAdded,    \* the number of tasks it scheduled
  accepted,     \* how many requests so far were new text messages not sent by the bot
  app,          \* the application: starting, ready or exited, and how initialize ended
  lastReply,    \* the response of the latest GET request
  git           \* the call of SkillGenerator.git_commit_and_push of create_skill.py

vars == <<tasks, episodes, lastEvent, lastAck, lastAdded, accepted, app, lastReply, git>>

NoEvent == Event("none", "absent", "absent", "absent", AbsentText, "absent", "absent", Absent, AbsentTs)
NoAck == [status |-> "none", message |-> ""]

\* the shape the gateway documents: a JSON object whose nested payload and
\* message, when present, are objects (ObjectShaped) and whose timestamp,
\* when present, is an integer (WellFormed)
ObjectShaped(ev) ==
  /\ ev.body = "object"
  /\ ev.data # "null"
  /\ ev.message # "null"

WellFormed(ev) == ObjectShaped(ev) /\ ev.messageTimestamp.kind # "bad"

\* a well-formed new-message event that carries text and is not flagged self-sent
IsAccepted(ev) ==
  /\ WellFormed(ev)
  /\ ev.event = "messages.upsert"
  /\ ev.conversation.present
  /\ ev.fromMe # "true"

Pending == [kind |-> "pending"]

\* the application before its startup handler ran, and after it returned
Starting == [state |-> "starting", init |-> Pending]
Ready == [state |-> "ready", init |-> InitializeReturns]

NoReply == [path |-> "none"]
Unset == [type |-> "unset", val |-> ""]

\* a call of handle_message: its arguments, its locals, and what the run has
\* done so far
RunState(t, pc, trace, starts) ==
  [phone |-> t.phone, message |-> t.message, timestamp |-> t.timestamp,
   pc |-> pc,               \* the external call the run is suspended in
   context |-> << >>, response |-> Unset, sent |-> FALSE,
   searchReq |-> << >>,     \* searches issued to the memory store
   difyReq |-> << >>,       \* request bodies posted to the RAG backend
   sends |-> << >>,         \* request bodies posted to the gateway
   trace |-> trace,         \* the steps entered, in order
   starts |-> starts,       \* times the event loop started the task
   raised |-> FALSE,        \* an exception left handle_message
   caught |-> << >>,        \* the exceptions the except clause of handle_message logged
   seen |-> 0,              \* Episodes in the store when the run issued its search
   episodeAt |-> 0,         \* position in the store of the Episode the run added
   searchOut |-> Pending, difyOut |-> Pending, gwOut |-> Pending, writeOut |-> Pending]

\* add_task replaced by awaiting handle_message inside the handler
NewRunInline(t) ==
  [RunState(t, "retrieve", <<"retrieve">>, 1) EXCEPT
     !.searchReq = <<SearchRequest(t.phone, DefaultLimit)>>]

\* a task waiting for the event loop to start it
NewRun(t) == RunState(t, "scheduled", << >>, 0)

Init ==
  /\ tasks = << >>
  /\ episodes = << >>
  /\ lastEvent = NoEvent
  /\ lastAck = NoAck
  /\ lastAdded = 0
  /\ accepted = 0
  /\ app = Ready
  /\ lastReply = NoReply
  /\ git = NoGit

\* a handler that drops an event whose message is already among the tasks
WebhookDedup(ev) ==
  LET r == webhook_handler(ev)
      fresh == SelectSeq(r.added, LAMBDA t :
                 \A i \in 1..Len(tasks) :
                   ~ (/\ tasks[i].phone = t.phone
                      /\ tasks[i].message = t.message
                      /\ tasks[i].timestamp = t.timestamp))
  IN  /\ app.state = "ready"
      /\ tasks' = tasks \o [i \in 1..Len(fresh) |-> NewRun(fresh[i])]
      /\ lastEvent' = ev
      /\ lastAck' = r.ack
      /\ lastAdded' = Len(fresh)
      /\ accepted' = accepted + (IF IsAccepted(ev) THEN 1 ELSE 0)
      /\ UNCHANGED <<episodes, app, lastReply, git>>

\* POST /webhook with event ev; the server takes requests once the startup
\* handler has returned
Webhook(ev) ==
  LET r == webhook_handler(ev)
  IN  /\ app.state = "ready"
      /\ tasks' = tasks \o [i \in 1..Len(r.added) |-> NewRun(r.added[i])]
      /\ lastEvent' = ev
      /\ lastAck' = r.ack
      /\ lastAdded' = Len(r.added)
      /\ accepted' = accepted + (IF IsAccepted(ev) THEN 1 ELSE 0)
      /\ UNCHANGED <<episodes, app, lastReply, git>>

-----------------------------------------------------------------------------
(* handle_message *)

\* the program with steps 2 and 3 exchanged
handle_message_steps_swapped == <<"retrieve", "send", "generate", "record">>

\* the program with the send issued a second time
handle_message_steps_send_again == <<"retrieve", "generate", "send", "send", "record">>

\* the awaited calls of handle_message, in program order
handle_message_steps == <<"retrieve", "generate", "send", "record">>

\* the step after step in program order; "done" after the last
NextStep(step) ==
  LET i == CHOOSE k \in 1..Len(handle_message_steps) : handle_message_steps[k] = step
  IN  IF i < Len(handle_message_steps) THEN handle_message_steps[i + 1] ELSE "done"

\* step 4 without its guard
ShouldRecordAlways(sent) == TRUE

\* if sent: (the guard of step 4)
ShouldRecord(sent) == sent

\* handle_message without its except clause
handle_message_no_except(exc) == FALSE

\* except Exception as e: of handle_message; TRUE when the exception is caught
handle_message_except(exc) == exc \in ExceptionSubclasses

\* an exception reaches the try block of handle_message
Except(r, exc) ==
  IF handle_message_except(exc) THEN [r EXCEPT !.pc = "done", !.caught = Append(@, exc)]
  ELSE [r EXCEPT !.pc = "done", !.raised = TRUE]

\* the run goes on from the top of step: it issues the call and is suspended
\* in it, or skips the step, or raises before the call
RECURSIVE Enter(_, _)
Enter(r, step) ==
  IF step = "done" THEN [r EXCEPT !.pc = "done"]
  ELSE IF step = "retrieve"
    THEN [r EXCEPT !.pc = step, !.trace = Append(@, step),
                   !.searchReq = Append(@, SearchRequest(r.phone, DefaultLimit))]
  ELSE IF step = "generate"
    THEN [r EXCEPT !.pc = step, !.trace = Append(@, step),
                   !.difyReq = Append(@, DifyPayload(r.message, r.context, r.phone))]
  ELSE IF step = "send"
    THEN [r EXCEPT !.pc = step, !.trace = Append(@, step),
                   !.sends = Append(@, [number |-> r.phone, text |-> r.response])]
  ELSE \* "record"
    IF ~ ShouldRecord(r.sent) THEN Enter(r, NextStep(step))
    ELSE IF FromTimestamp(r.timestamp).raised THEN Except(r, FromTimestamp(r.timestamp).exc)
    ELSE [r EXCEPT !.pc = step, !.trace = Append(@, step)]

Runs == 1..Len(tasks)

WebhookUnchanged == UNCHANGED <<lastEvent, lastAck, lastAdded, accepted, app, lastReply, git>>

\* a scheduler with one worker: a task starts only while no other run is
\* suspended in a call
StartRunOneWorker(i) ==
  /\ tasks[i].pc = "scheduled"
  /\ \A k \in Runs : tasks[k].pc \in {"scheduled", "done"}
  /\ tasks' = [tasks EXCEPT ![i] = Enter([@ EXCEPT !.starts = @ + 1, !.seen = Len(episodes)],
                                         handle_message_steps[1])]
  /\ UNCHANGED episodes
  /\ WebhookUnchanged

\* the event loop starts background task i
StartRun(i) ==
  /\ tasks[i].pc = "scheduled"
  /\ tasks' = [tasks EXCEPT ![i] = Enter([@ EXCEPT !.starts = @ + 1, !.seen = Len(episodes)],
                                         handle_message_steps[1])]
  /\ UNCHANGED episodes
  /\ WebhookUnchanged

\* graphiti.search of run i ends as out
RetrieveReturn(i, out) ==
  /\ tasks[i].pc = "retrieve"
  /\ LET r == tasks[i]
         res == get_conversation_context(r.phone, DefaultLimit, out)
     IN  tasks' = [tasks EXCEPT ![i] =
           IF res.raised THEN Except([r EXCEPT !.searchOut = out], res.exc)
           ELSE Enter([r EXCEPT !.searchOut = out, !.context = res.value], NextStep("retrieve"))]
  /\ UNCHANGED episodes
  /\ WebhookUnchanged

\* the POST of run i to the RAG backend ends as out
GenerateReturn(i, out) ==
  /\ tasks[i].pc = "generate"
  /\ LET r == tasks[i]
         res == process_with_dify(r.message, r.context, r.phone, out)
     IN  tasks' = [tasks EXCEPT ![i] =
           IF res.raised THEN Except([r EXCEPT !.difyOut = out], res.exc)
           ELSE Enter([r EXCEPT !.difyOut = out, !.response = res.value], NextStep("generate"))]
  /\ UNCHANGED episodes
  /\ WebhookUnchanged

\* the POST of run i to the gateway ends as out
SendReturn(i, out) ==
  /\ tasks[i].pc = "send"
  /\ LET r == tasks[i]
         res == send_whatsapp_message(r.phone, r.response, out)
     IN  tasks' = [tasks EXCEPT ![i] =
           IF res.raised THEN Except([r EXCEPT !.gwOut = out], res.exc)
           ELSE Enter([r EXCEPT !.gwOut = out, !.sent = res.value], NextStep("send"))]
  /\ UNCHANGED episodes
  /\ WebhookUnchanged

\* graphiti.add_episode of run i ends as out
RecordReturn(i, out) ==
  /\ tasks[i].pc = "record"
  /\ LET r == tasks[i]
         res == store_interaction(episodes, r.phone, r.message, r.response,
                                  FromTimestamp(r.timestamp).value, out)
     IN  /\ episodes' = res.store
         /\ tasks' = [tasks EXCEPT ![i] =
              IF res.result.raised THEN Except([r EXCEPT !.writeOut = out], res.result.exc)
              ELSE Enter([r EXCEPT !.writeOut = out,
                                   !.episodeAt = IF Len(res.store) > Len(episodes)
                                                 THEN Len(res.store) ELSE 0],
                         NextStep("record"))]
  /\ WebhookUnchanged

-----------------------------------------------------------------------------
(* Spec: webhook requests and concurrent pipeline runs *)

SpecSearchOutcomes == {SearchRaises("ServiceUnavailable"), SearchReturns(<<EpisodePlain>>)}
SpecDifyOutcomes == {DifyResponds(200, "object", TRUE, Str("hi there")), DifyResponds(500, "object", FALSE, None)}
SpecGatewayOutcomes == {GatewayResponds(200), GatewayResponds(500)}
SpecWriteOutcomes == WriteOutcomes

Receive ==
  /\ Len(tasks) < MaxTasks
  /\ accepted < MaxTasks
  /\ \E ev \in SpecEvents : Webhook(ev)

Start == \E i \in Runs : StartRun(i)
Retrieve == \E i \in Runs, out \in SpecSearchOutcomes : RetrieveReturn(i, out)
Generate == \E i \in Runs, out \in SpecDifyOutcomes : GenerateReturn(i, out)
Send == \E i \in Runs, out \in SpecGatewayOutcomes : SendReturn(i, out)
Record == \E i \in Runs, out \in SpecWriteOutcomes : RecordReturn(i, out)

Next == Receive \/ Start \/ Retrieve \/ Generate \/ Send \/ Record

Spec == Init /\ [][Next]_vars

\* a background task that was added is started: starlette runs the tasks of a
\* request once its response is sent, and the event loop runs what is ready
SpecFair == Spec /\ WF_vars(Start)

-----------------------------------------------------------------------------
(* SpecLive: accepted messages only, concurrent runs whose calls all end   *)

\* accepted messages; the run of the last one fails in
\* datetime.fromtimestamp, outside every step's own except clause
LiveEvents ==
  { TextEvent(Jid51, "hello", TsSeconds),
    TextEvent(Jid51, "hello", TsMillis) }

LiveReceive ==
  /\ Len(tasks) < MaxTasks
  /\ accepted < MaxTasks
  /\ \E ev \in LiveEvents : Webhook(ev)

NextLive == LiveReceive \/ Start \/ Retrieve \/ Generate \/ Send \/ Record

\* a task that was added is started, and every awaited call ends, by
\* returning or by raising, after which the event loop resumes the run
SpecLive ==
  /\ Init /\ [][NextLive]_vars
  /\ WF_vars(Start) /\ WF_vars(Retrieve) /\ WF_vars(Generate) /\ WF_vars(Send) /\ WF_vars(Record)

-----------------------------------------------------------------------------
(* SpecRun: one pipeline run, for every accepted message and every outcome *)
(* of its four external calls                                              *)

RunEvents ==
  { TextEvent(j, m, t) : j \in {Jid51, JidNoId, JidBare}, m \in {"hello", ""}, t \in {TsSeconds, TsMillis} }

\* the state right after the webhook accepted one event of RunEvents
InitRun ==
  \E ev \in RunEvents :
    /\ tasks = [i \in 1..Len(webhook_handler(ev).added) |-> NewRun(webhook_handler(ev).added[i])]
    /\ episodes = << >>
    /\ lastEvent = ev
    /\ lastAck = webhook_handler(ev).ack
    /\ lastAdded = Len(webhook_handler(ev).added)
    /\ accepted = 1
    /\ app = Ready
    /\ lastReply = NoReply
  /\ git = NoGit

RunStart == \E i \in Runs : StartRun(i)
RunRetrieve == \E i \in Runs, out \in SearchOutcomes : RetrieveReturn(i, out)
RunGenerate == \E i \in Runs, out \in DifyOutcomes : GenerateReturn(i, out)
RunSend == \E i \in Runs, out \in GatewayOutcomes : SendReturn(i, out)
RunRecord == \E i \in Runs, out \in WriteOutcomes : RecordReturn(i, out)

NextRun == RunStart \/ RunRetrieve \/ RunGenerate \/ RunSend \/ RunRecord

SpecRun == InitRun /\ [][NextRun]_vars

-----------------------------------------------------------------------------
(* SpecStartup: the application from before its startup handler runs       *)

InitStartup ==
  /\ tasks = << >>
  /\ episodes = << >>
  /\ lastEvent = NoEvent
  /\ lastAck = NoAck
  /\ lastAdded = 0
  /\ accepted = 0
  /\ app = Starting
  /\ lastReply = NoReply
  /\ git = NoGit

\* the startup handler runs, initialize ending as out: the application is
\* ready when the handler returns and exits when it raises
Startup ==
  /\ app.state = "starting"
  /\ \E out \in InitializeOutcomes :
       app' = [state |-> IF startup_event(out).raised THEN "exited" ELSE "ready", init |-> out]
  /\ UNCHANGED <<tasks, episodes, lastEvent, lastAck, lastAdded, accepted, lastReply, git>>

NextStartup == Startup \/ Receive \/ Start \/ Retrieve \/ Generate \/ Send \/ Record

SpecStartup == InitStartup /\ [][NextStartup]_vars

-----------------------------------------------------------------------------
(* SpecCore: every operation of the service: webhook, runs, stats, health  *)

\* an accepted message and a dropped event
CoreEvents ==
  { TextEvent(Jid51, "hello", TsSeconds),
    Event("object", "connection.update", "object", "absent", AbsentText,
          "absent", "absent", Absent, AbsentTs) }

CoreReceive ==
  /\ Len(tasks) < MaxTasks
  /\ accepted < MaxTasks
  /\ \E ev \in CoreEvents : Webhook(ev)

\* GET /stats/{phone}
StatsPhones == {SplitAtFirst(Jid51), Jid52}

StatsOutcomes ==
  { SearchRaises("ServiceUnavailable"), SearchReturns(<<EdgeResult, EpisodePlain>>),
    SearchOverLimit }

StatsRequest ==
  /\ app.state = "ready"
  /\ \E phone \in StatsPhones, out \in StatsOutcomes :
       lastReply' = [path |-> "stats", phone |-> phone,
                     searchReq |-> SearchRequest(phone, StatsLimit), searchOut |-> out,
                     response |-> get_user_stats(phone, out)]
  /\ UNCHANGED <<tasks, episodes, lastEvent, lastAck, lastAdded, accepted, app, git>>

\* GET /health
HealthRequest ==
  /\ app.state = "ready"
  /\ lastReply' = [path |-> "health", response |-> health_check]
  /\ UNCHANGED <<tasks, episodes, lastEvent, lastAck, lastAdded, accepted, app, git>>

NextCore ==
  CoreReceive \/ Start \/ Retrieve \/ Generate \/ Send \/ Record \/ StatsRequest \/ HealthRequest

SpecCore == Init /\ [][NextCore]_vars

-----------------------------------------------------------------------------
(* SpecTimeout: one pipeline run whose external systems may also never     *)
(* answer                                                                  *)

\* the steps whose call carries a timeout: the two POSTs go through
\* http_client, built with timeout=30.0; graphiti.search and
\* graphiti.add_episode are awaited with no timeout argument and no wait_for
HasTimeout(step) == step \in {"generate", "send"}

\* run i stays suspended in the call of step, which never ends
Blocked(i, step) ==
  /\ tasks[i].pc = step
  /\ tasks' = [tasks EXCEPT ![i].pc = "blocked"]
  /\ UNCHANGED episodes
  /\ WebhookUnchanged

\* the external system of the step never answers: a call that carries a
\* timeout raises when it expires, a call that carries none never ends
RetrieveNoAnswer(i) ==
  IF HasTimeout("retrieve") THEN RetrieveReturn(i, SearchRaises("TimeoutError"))
  ELSE Blocked(i, "retrieve")

GenerateNoAnswer(i) ==
  IF HasTimeout("generate") THEN GenerateReturn(i, DifyRaises("ReadTimeout"))
  ELSE Blocked(i, "generate")

SendNoAnswer(i) ==
  IF HasTimeout("send") THEN SendReturn(i, GatewayRaises("ReadTimeout"))
  ELSE Blocked(i, "send")

RecordNoAnswer(i) ==
  IF HasTimeout("record") THEN RecordReturn(i, WriteRaises("TimeoutError"))
  ELSE Blocked(i, "record")

\* the call run i is suspended in ends, or its external system never answers
TimeoutStep(i) ==
  \/ StartRun(i)
  \/ \E out \in SearchOutcomes : RetrieveReturn(i, out)
  \/ \E out \in DifyOutcomes : GenerateReturn(i, out)
  \/ \E out \in GatewayOutcomes : SendReturn(i, out)
  \/ \E out \in WriteOutcomes : RecordReturn(i, out)
  \/ RetrieveNoAnswer(i)
  \/ GenerateNoAnswer(i)
  \/ SendNoAnswer(i)
  \/ RecordNoAnswer(i)

TimeoutRetrieve == \E i \in Runs : RetrieveNoAnswer(i)
TimeoutGenerate == \E i \in Runs : GenerateNoAnswer(i)
TimeoutSend == \E i \in Runs : SendNoAnswer(i)
TimeoutRecord == \E i \in Runs : RecordNoAnswer(i)

NextTimeout == NextRun \/ TimeoutRetrieve \/ TimeoutGenerate \/ TimeoutSend \/ TimeoutRecord

SpecTimeout == InitRun /\ [][NextTimeout]_vars /\ WF_vars(NextTimeout)

-----------------------------------------------------------------------------
(* SpecIngest: the webhook alone, for every shape of event; no run starts  *)

IngestWebhook ==
  /\ Len(tasks) < MaxBacklog
  /\ accepted < MaxBacklog
  /\ \E ev \in AllEvents : Webhook(ev)

NextIngest == IngestWebhook

SpecIngest == Init /\ [][NextIngest]_vars

-----------------------------------------------------------------------------
(* SpecGit: one call of git_commit_and_push, over the return codes of its
   subprocesses *)

ReturnCodes == {0, 1, 128}
BranchNames == {"main", "claude/skill", ""}

BotUnchanged ==
  UNCHANGED <<tasks, episodes, lastEvent, lastAck, lastAdded, accepted, app, lastReply>>

InitGit ==
  /\ tasks = << >>
  /\ episodes = << >>
  /\ lastEvent = NoEvent
  /\ lastAck = NoAck
  /\ lastAdded = 0
  /\ accepted = 0
  /\ app = Ready
  /\ lastReply = NoReply
  /\ git = GitState("rev-parse")

\* git rev-parse --git-dir ends with return code rc
GitRevParse(rc) ==
  /\ git.pc = "rev-parse"
  /\ git' = [git EXCEPT !.pc = IF rc # 0 THEN "returned" ELSE "branch"]
  /\ BotUnchanged

\* git branch --show-current prints name
GitBranch(name) ==
  /\ git.pc = "branch"
  /\ git' = [git EXCEPT !.pc = "add", !.current_branch = name]
  /\ BotUnchanged

\* git add ends with return code rc
GitAdd(rc) ==
  /\ git.pc = "add"
  /\ git' = [git EXCEPT !.pc = "commit", !.addRc = rc]
  /\ BotUnchanged

\* git commit ends with return code rc
GitCommit(rc) ==
  /\ git.pc = "commit"
  /\ git' = [git EXCEPT !.commitRc = rc,
                        !.pc = IF rc = 0 /\ git.attempt < max_retries THEN "push" ELSE "returned"]
  /\ BotUnchanged

\* git push -u origin current_branch of the current attempt ends with return
\* code rc; the rest of the loop body follows, the wait included
GitPush(rc) ==
  /\ git.pc = "push"
  /\ LET pushed == Append(git.log, [op |-> "push", branch |-> git.current_branch,
                                     attempt |-> git.attempt + 1, rc |-> rc])
     IN  git' =
           IF rc = 0 THEN [git EXCEPT !.pc = "returned", !.log = pushed]
           ELSE [git EXCEPT
                   !.log = IF RetryAgain(git.attempt)
                           THEN Append(pushed, [op |-> "sleep", delay |-> retry_delays[git.attempt + 1]])
                           ELSE pushed,
                   !.attempt = @ + 1,
                   !.pc = IF git.attempt + 1 < max_retries THEN "push" ELSE "returned"]
  /\ BotUnchanged

RevParse == \E rc \in ReturnCodes : GitRevParse(rc)
Branch == \E name \in BranchNames : GitBranch(name)
Add == \E rc \in ReturnCodes : GitAdd(rc)
Commit == \E rc \in ReturnCodes : GitCommit(rc)
Push == \E rc \in ReturnCodes : GitPush(rc)

NextGit == RevParse \/ Branch \/ Add \/ Commit \/ Push

SpecGit == InitGit /\ [][NextGit]_vars

-----------------------------------------------------------------------------
(* Properties *)

IsPrefix(s, t) == Len(s) <= Len(t) /\ \A k \in 1..Len(s) : s[k] = t[k]

Entered(r, step) == \E k \in 1..Len(r.trace) : r.trace[k] = step

\* started and not finished: suspended in one of the external calls
InFlight(r) == r.pc \notin {"scheduled", "done"}

\* C1 (Spec): at most one pipeline run per conversation identity is in
\* flight: two runs that are both between their start and their end never
\* carry the same conversation identity.
C1_SerializedPerConversation ==
  \A i \in Runs, j \in Runs :
    (i # j /\ InFlight(tasks[i]) /\ InFlight(tasks[j])) => tasks[i].phone # tasks[j].phone

DeliverySucceeded(out) == out.kind = "response" /\ out.status \in {200, 201}

\* C2 (SpecRun): gated recording.  A run enters the record step only after
\* its delivery returned success (gateway status 200 or 201); once its
\* delivery has failed (another status, or a transport exception) the run
\* never enters the record step and the store holds no Episode.
C2_GatedRecording ==
  \A i \in Runs :
    LET r == tasks[i]
    IN  /\ Entered(r, "record") => (r.sent /\ DeliverySucceeded(r.gwOut))
        /\ (r.gwOut.kind # "pending" /\ ~ DeliverySucceeded(r.gwOut))
             => (~ r.sent /\ ~ Entered(r, "record") /\ r.pc = "done" /\ episodes = << >>)

\* C2 witness: a finished run whose delivery got status 500
C2_Witness ==
  \E i \in Runs :
    /\ tasks[i].pc = "done"
    /\ tasks[i].gwOut = GatewayResponds(500)
    /\ tasks[i].trace = <<"retrieve", "generate", "send">>
    /\ episodes = << >>

\* C3 (SpecRun): no exception leaves handle_message, whatever the outcomes
\* of the memory-store query, the RAG call, the gateway send and the
\* memory-store write are.
C3_NoFailurePropagates == \A i \in Runs : ~ tasks[i].raised

\* C3 witness: a finished run whose memory-store query, RAG call and
\* memory-store write all raised
C3_Witness ==
  \E i \in Runs :
    /\ tasks[i].pc = "done"
    /\ ~ tasks[i].raised
    /\ tasks[i].searchOut.kind = "raise"
    /\ tasks[i].difyOut.kind = "raise"
    /\ tasks[i].sent
    /\ tasks[i].writeOut.kind = "raise"

\* the event is no new-message event, or is flagged self-sent, or has no text
Dropped(ev) ==
  \/ ev.event # "messages.upsert"
  \/ ev.fromMe = "true"
  \/ ~ ev.conversation.present

Requested == lastEvent.body # "none"

LacksRequiredField(ev) ==
  /\ ev.body = "object"
  /\ ev.event = "messages.upsert"
  /\ \/ ev.data = "absent"
     \/ ~ ev.remoteJid.present
     \/ ~ ev.conversation.present
     \/ ev.messageTimestamp.kind = "absent"

\* C5 (SpecIngest): a request whose body is malformed JSON, or whose event
\* lacks a required field, is acknowledged with status error and schedules
\* no task.
C5_MalformedRejected ==
  (Requested /\ (lastEvent.body = "invalid" \/ LacksRequiredField(lastEvent)))
    => (lastAck.status = "error" /\ lastAdded = 0)

\* C6 (SpecIngest): no task is ever scheduled with an empty conversation
\* identity or an empty message text.
C6_NoEmptyEnvelopeScheduled ==
  \A i \in Runs : tasks[i].phone # << >> /\ tasks[i].message # ""

\* C7 (SpecFair): every accepted event adds exactly one background task and
\* no other event adds one, no task is started twice, and every task that
\* was added is started.
C7_OneRunPerAcceptedEvent ==
  /\ [](/\ Len(tasks) = accepted
        /\ \A i \in Runs : /\ tasks[i].starts <= 1
                           /\ tasks[i].pc # "scheduled" => tasks[i].starts = 1)
  /\ \A n \in 1..MaxTasks : [](Len(tasks) >= n => <>(Len(tasks) >= n /\ tasks[n].starts = 1))

\* C7 witness: two events were accepted and both their runs started once
\* and finished
C7_Witness ==
  /\ accepted = 2
  /\ Len(tasks) = 2
  /\ \A i \in Runs : tasks[i].starts = 1 /\ tasks[i].pc = "done"

\* C8 (SpecRun): the steps of a run are entered in the order retrieve,
\* generate, send, record, each at most once; the call the run is suspended
\* in is the last step it entered, and a step is entered only when the call
\* of the step before it has returned.
C8_StrictStepOrder ==
  \A i \in Runs :
    LET r == tasks[i]
    IN  /\ IsPrefix(r.trace, <<"retrieve", "generate", "send", "record">>)
        /\ InFlight(r) => (r.trace # << >> /\ r.trace[Len(r.trace)] = r.pc)
        /\ Entered(r, "generate") => r.searchOut.kind # "pending"
        /\ Entered(r, "send") => r.difyOut.kind # "pending"
        /\ Entered(r, "record") => r.gwOut.kind # "pending"
        /\ r.searchOut.kind # "pending" => Entered(r, "retrieve")
        /\ r.difyOut.kind # "pending" => Entered(r, "generate")
        /\ r.gwOut.kind # "pending" => Entered(r, "send")
        /\ r.writeOut.kind # "pending" => Entered(r, "record")

\* C8 witness: a finished run that went through all four steps
C8_Witness ==
  \E i \in Runs :
    /\ tasks[i].pc = "done"
    /\ tasks[i].trace = <<"retrieve", "generate", "send", "record">>
    /\ tasks[i].writeOut.kind = "ok"

\* C9 (SpecRun): whatever the backend does, the reply process_with_dify
\* returned is a non-empty text string.
C9_GenerateReturnsText ==
  \A i \in Runs :
    tasks[i].difyOut.kind # "pending"
      => (tasks[i].response.type = "str" /\ tasks[i].response.val # "")

BackendFailed(out) == out.kind = "raise" \/ (out.kind = "response" /\ out.status # 200)

\* C10 (SpecRun): when the RAG call raised or answered with a status other
\* than 200, the reply is the fallback text of that case, the run did not
\* abort, and it went on to post exactly that text to the gateway.
C10_FallbackOnBackendFailure ==
  \A i \in Runs :
    LET r == tasks[i]
    IN  BackendFailed(r.difyOut)
          => /\ r.response = (IF r.difyOut.kind = "raise" THEN Str(TransportErrorText)
                              ELSE Str(BackendErrorText))
             /\ ~ r.raised
             /\ Entered(r, "send")
             /\ r.sends = << [number |-> r.phone, text |-> r.response] >>

\* C10 witness: the backend was unreachable and the run is suspended in the
\* gateway send of the fallback text
C10_Witness ==
  \E i \in Runs :
    /\ tasks[i].difyOut = DifyRaises("ConnectError")
    /\ tasks[i].pc = "send"
    /\ tasks[i].sends[1].text = Str(TransportErrorText)

\* exception exc reached the except clause of handle_message
Caught(r, exc) == \E k \in 1..Len(r.caught) : r.caught[k] = exc

\* the memory store was unreachable, failed, or had nothing to return
StoreGaveNothing(out) ==
  out.kind = "raise" \/ (out.kind = "results" /\ out.results = << >>)

\* C11 (SpecRun): when the memory store is unreachable, fails or returns
\* nothing, the retrieve step hands back the empty sequence and no error:
\* the store's exception does not reach the except clause of the run, and the
\* run goes on to the generate step, whose request carries an empty
\* conversation history.
C11_EmptyContextOnStoreFailure ==
  \A i \in Runs :
    StoreGaveNothing(tasks[i].searchOut) =>
      /\ tasks[i].context = << >>
      /\ (tasks[i].searchOut.kind = "raise" => ~ Caught(tasks[i], tasks[i].searchOut.exc))
      /\ ~ tasks[i].raised
      /\ Entered(tasks[i], "generate")
      /\ Len(tasks[i].difyReq) = 1
      /\ tasks[i].difyReq[1].inputs.conversation_history = << >>

C11_Witness ==
  \E i \in Runs :
    /\ tasks[i].searchOut = SearchRaises("ServiceUnavailable")
    /\ tasks[i].context = << >>
    /\ tasks[i].pc = "generate"
    /\ tasks[i].difyReq[1].inputs.conversation_history = << >>

\* C12 (SpecRun): bounded context.  The context a run retrieved with the
\* default limit holds at most limit items, whatever the size of the store's
\* answer, an answer longer than limit included.
C12_BoundedContext ==
  \A i \in Runs : Len(tasks[i].context) <= DefaultLimit

\* C13 (SpecRun): once the POST to the gateway has ended, the sent flag of the
\* run is true exactly when the gateway answered 200 or 201, and false for
\* every other status and for a transport exception; the exception does not
\* leave send_whatsapp_message, so it never reaches the except clause of the
\* run nor the scheduler.
C13_SentIffGatewayAccepted ==
  \A i \in Runs :
    tasks[i].gwOut # Pending =>
      /\ tasks[i].sent = DeliverySucceeded(tasks[i].gwOut)
      /\ (tasks[i].gwOut.kind = "raise" => ~ Caught(tasks[i], tasks[i].gwOut.exc))
      /\ ~ tasks[i].raised

C13_Witness ==
  \E i \in Runs :
    /\ tasks[i].gwOut = GatewayResponds(201)
    /\ tasks[i].sent
    /\ tasks[i].pc = "record"

\* C14 (Spec): Episode identifiers are unique: no two Episodes of the store,
\* so no two recorded exchanges of one conversation, carry the same name.
C14_UniqueEpisodeNames ==
  \A m \in 1..Len(episodes), n \in 1..Len(episodes) :
    m # n => episodes[m].name # episodes[n].name

\* the RAG backend answered 200 with a JSON object whose answer is a string
RagAnswered(out) ==
  /\ out.kind = "response"
  /\ out.status = 200
  /\ out.body = "object"
  /\ out.answer.present
  /\ out.answer.value.type = "str"

\* the store holds exactly one Episode, and its body holds the text of the
\* user and the reply that was posted to the gateway
OneEpisodeOf(r) ==
  /\ Len(episodes) = 1
  /\ episodes[1].episode_body[4] = r.message
  /\ Len(r.sends) = 1
  /\ episodes[1].episode_body[6] = Format(r.sends[1].text)

\* C15 as stated (SpecRun): for one accepted message whose run has ended, if
\* the RAG backend returned an answer and the gateway returned 200, exactly
\* one Episode is recorded and its body holds the user's text and the
\* delivered reply; if the gateway returned 500, no Episode is recorded.
C15_EndToEndAsStated ==
  \A i \in Runs :
    tasks[i].pc = "done" =>
      /\ (RagAnswered(tasks[i].difyOut) /\ tasks[i].gwOut = GatewayResponds(200))
            => OneEpisodeOf(tasks[i])
      /\ tasks[i].gwOut = GatewayResponds(500) => episodes = << >>

\* C15 amended (SpecRun): for one accepted message whose run has ended, if
\* the RAG backend returned an answer and the gateway returned 200, then
\* exactly one Episode is recorded, holding the user's text and the delivered
\* reply, when the message's timestamp is one datetime can represent and the
\* write to the memory store succeeded, and no Episode is recorded otherwise;
\* if the gateway returned 500, no Episode is recorded.
C15_EndToEnd ==
  \A i \in Runs :
    tasks[i].pc = "done" =>
      /\ (RagAnswered(tasks[i].difyOut) /\ tasks[i].gwOut = GatewayResponds(200))
            => IF ~ FromTimestamp(tasks[i].timestamp).raised /\ tasks[i].writeOut = WriteReturns
               THEN OneEpisodeOf(tasks[i])
               ELSE episodes = << >>
      /\ tasks[i].gwOut = GatewayResponds(500) => episodes = << >>

C15_Witness ==
  \E i \in Runs :
    /\ tasks[i].pc = "done"
    /\ tasks[i].message = "hello"
    /\ tasks[i].difyOut = DifyResponds(200, "object", TRUE, Str("hi there"))
    /\ tasks[i].gwOut = GatewayResponds(200)
    /\ tasks[i].writeOut = WriteReturns
    /\ OneEpisodeOf(tasks[i])

\* C16 (Spec): the acknowledgment of an accepted event is {status: success}
\* and does not depend on the run: the request that adds a task is answered
\* with success while that task has not started, and no step of any run,
\* whether it succeeds, degrades or fails, changes the acknowledgment given.
C16_AckIndependentOfRun ==
  /\ [](IsAccepted(lastEvent) => lastAck = SuccessAck)
  /\ [][ /\ Len(tasks') > Len(tasks) =>
             /\ lastAck' = SuccessAck
             /\ \A i \in (Len(tasks) + 1)..Len(tasks') : tasks'[i].pc = "scheduled"
         /\ (\E i \in Runs : tasks'[i] # tasks[i]) =>
             /\ lastAck' = lastAck
             /\ lastEvent' = lastEvent ]_vars

C16_Witness ==
  /\ IsAccepted(lastEvent)
  /\ lastAdded = 1
  /\ lastAck = SuccessAck
  /\ tasks[Len(tasks)].pc = "done"
  /\ tasks[Len(tasks)].gwOut = GatewayResponds(500)
  /\ ~ tasks[Len(tasks)].sent

\* a run that ended after one of its steps failed
Failed(r) ==
  /\ r.pc = "done"
  /\ \/ r.searchOut.kind = "raise"
     \/ (r.difyOut # Pending /\ BackendFailed(r.difyOut))
     \/ (r.gwOut # Pending /\ ~ DeliverySucceeded(r.gwOut))
     \/ r.writeOut.kind = "raise"
     \/ r.caught # << >>
     \/ r.raised

\* some step of run i can be taken
RunStep(i) ==
  \/ StartRun(i)
  \/ \E out \in SpecSearchOutcomes : RetrieveReturn(i, out)
  \/ \E out \in SpecDifyOutcomes : GenerateReturn(i, out)
  \/ \E out \in SpecGatewayOutcomes : SendReturn(i, out)
  \/ \E out \in SpecWriteOutcomes : RecordReturn(i, out)

C18_RecordingFailureLogOnly ==
  \A i \in Runs :
    tasks[i].writeOut.kind = "raise" =>
      /\ tasks[i].pc = "done"
      /\ tasks[i].caught = << >>
      /\ ~ tasks[i].raised
      /\ tasks[i].sent
      /\ tasks[i].sends = << [number |-> tasks[i].phone, text |-> tasks[i].response] >>
      /\ tasks[i].trace = handle_message_steps
      /\ tasks[i].episodeAt = 0
      /\ episodes = << >>

C18_Witness ==
  \E i \in Runs :
    /\ tasks[i].gwOut = GatewayResponds(200)
    /\ tasks[i].writeOut = WriteRaises("ServiceUnavailable")
    /\ tasks[i].pc = "done"
    /\ Len(tasks[i].sends) = 1
    /\ episodes = << >>

\* C19 (SpecTimeout): every external call carries a timeout, so a run never
\* waits forever: a run suspended in an external call can always go on, by
\* the call returning, raising, or timing out, even when the external system
\* never answers; every started run therefore comes to its end.
C19_NoRunWaitsForever ==
  \A i \in Runs : InFlight(tasks[i]) => ENABLED TimeoutStep(i)

\* C20 (Spec): the Episodes of one conversation are recorded in causal order:
\* when two messages of one conversation both record, the Episode of the one
\* accepted first is in the store before the Episode of the other, and was
\* already there when the run of the other issued its search.
C20_CausalEpisodeOrder ==
  \A i \in Runs, j \in Runs :
    (/\ i < j
     /\ tasks[i].phone = tasks[j].phone
     /\ tasks[i].episodeAt > 0
     /\ tasks[j].episodeAt > 0)
    => /\ tasks[i].episodeAt < tasks[j].episodeAt
       /\ tasks[i].episodeAt <= tasks[j].seen

\* C21 (Spec): runs of different conversations are not ordered against each
\* other.  While a run of conversation A is suspended in an external call, a
\* run of another conversation B that has not ended can always take its next
\* step, whichever of the two was accepted first: B can start and reach its
\* end while A stays suspended.
C21_ConcurrentAcrossConversations ==
  \A a \in Runs, b \in Runs :
    (/\ tasks[a].phone # tasks[b].phone
     /\ InFlight(tasks[a])
     /\ tasks[b].pc # "done")
    => ENABLED RunStep(b)

C21_Witness ==
  \E a \in Runs, b \in Runs :
    /\ a < b
    /\ tasks[a].phone # tasks[b].phone
    /\ tasks[a].pc = "retrieve"
    /\ tasks[b].pc = "done"
    /\ tasks[b].trace = handle_message_steps
    /\ tasks[b].episodeAt = 1

\* C22 (SpecRun): the gateway send is never retried.  A run posts to the
\* gateway at most once and enters the send step at most once; after a send
\* that failed (an exception or a status other than 200 and 201) the run has
\* ended with that single post.
C22_NoSendRetry ==
  \A i \in Runs :
    /\ Len(tasks[i].sends) <= 1
    /\ Cardinality({k \in 1..Len(tasks[i].trace) : tasks[i].trace[k] = "send"}) <= 1
    /\ (tasks[i].gwOut # Pending /\ ~ DeliverySucceeded(tasks[i].gwOut)) =>
          /\ tasks[i].pc = "done"
          /\ Len(tasks[i].sends) = 1

C22_Witness ==
  \E i \in Runs :
    /\ tasks[i].gwOut = GatewayResponds(500)
    /\ tasks[i].pc = "done"
    /\ Len(tasks[i].sends) = 1

\* C23 (SpecStartup): a failed initialization of the memory store is fatal at
\* startup.  When building the driver or the indices raised, the application
\* has exited, and neither then nor before the startup handler returned has
\* any webhook event been ingested or any run been added or started.
C23_InitFailureFatal ==
  /\ app.init.kind = "raise" => app.state = "exited"
  /\ app.state # "ready" =>
       /\ lastEvent = NoEvent
       /\ lastAck = NoAck
       /\ accepted = 0
       /\ tasks = << >>
       /\ episodes = << >>

C23_Witness ==
  /\ app.state = "exited"
  /\ app.init = InitializeRaises("build_indices")
  /\ ~ ENABLED NextStartup

\* C24 (SpecRun): generate uses two distinct fallback texts.  After a
\* response with a status other than 200 the reply is the backend-error text
\* and not the transport-failure text; after a transport exception it is the
\* transport-failure text and not the backend-error text: from the reply one
\* can tell which of the two happened.
C24_DistinctFallbackTexts ==
  \A i \in Runs :
    LET r == tasks[i]
    IN  /\ (r.difyOut.kind = "response" /\ r.difyOut.status # 200) =>
              /\ r.response = Str(BackendErrorText)
              /\ r.response # Str(TransportErrorText)
        /\ r.difyOut.kind = "raise" =>
              /\ r.response = Str(TransportErrorText)
              /\ r.response # Str(BackendErrorText)

C24_Witness ==
  \E i \in Runs :
    /\ tasks[i].difyOut = DifyResponds(500, "object", FALSE, None)
    /\ tasks[i].sends = << [number |-> tasks[i].phone, text |-> Str(BackendErrorText)] >>
    /\ Str(BackendErrorText) # Str(TransportErrorText)

\* C25 (SpecIngest): timestamp normalization.  For every accepted event the
\* task added for it carries the gateway timestamp, whole seconds, times
\* 1000 (1700 becomes 1700000 in the model's unit); an event without a
\* timestamp counts as timestamp 0.
C25_TimestampTimes1000 ==
  IsAccepted(lastEvent) =>
    /\ lastAdded = 1
    /\ tasks[Len(tasks)].timestamp =
         (IF lastEvent.messageTimestamp.kind = "int"
          THEN lastEvent.messageTimestamp.val * 1000 ELSE 0)

C25_Witness ==
  /\ IsAccepted(lastEvent)
  /\ lastEvent.messageTimestamp = [kind |-> "int", val |-> TsSeconds]
  /\ lastAdded = 1
  /\ tasks[Len(tasks)].timestamp = TsSeconds * 1000

\* the part of a sender identifier before its first '@', all of it when it
\* holds none
BeforeSeparator(s) ==
  LET at == {k \in 1..Len(s) : s[k] = "@"}
  IN  IF at = {} THEN s
      ELSE SubSeq(s, 1, (CHOOSE k \in at : \A m \in at : k <= m) - 1)

\* C26 (SpecRun): identity normalization.  The conversation identity of the
\* run is the sender identifier of the accepted event up to its separator
\* ('51@s' gives '51'), and that identity is the one in the search issued to
\* the memory store, in the request to the RAG backend, in the post to the
\* gateway and in the Episode the run records.
C26_IdentityNormalized ==
  \A i \in Runs :
    LET r == tasks[i]
        id == BeforeSeparator(lastEvent.remoteJid.val)
    IN  /\ r.phone = id
        /\ \A k \in 1..Len(r.searchReq) : r.searchReq[k].query = <<"user ", id, " conversations">>
        /\ \A k \in 1..Len(r.difyReq) :
             /\ r.difyReq[k].inputs.phone = id
             /\ r.difyReq[k].user = id
        /\ \A k \in 1..Len(r.sends) : r.sends[k].number = id
        /\ r.episodeAt > 0 =>
             /\ episodes[r.episodeAt].name = <<"whatsapp_conversation_", id, r.timestamp \div 1000>>
             /\ episodes[r.episodeAt].episode_body[2] = id
             /\ episodes[r.episodeAt].source_description = <<"WhatsApp conversation with ", id>>

C26_Witness ==
  \E i \in Runs :
    /\ lastEvent.remoteJid.val = Jid51
    /\ tasks[i].episodeAt = 1
    /\ tasks[i].phone = <<"5", "1">>
    /\ tasks[i].searchReq[1].query = <<"user ", <<"5", "1">>, " conversations">>
    /\ tasks[i].difyReq[1].user = <<"5", "1">>
    /\ tasks[i].sends[1].number = <<"5", "1">>
    /\ episodes[1].episode_body[2] = <<"5", "1">>

\* C27 (SpecRun): results without a usable timestamp or score are defaulted,
\* not left out.  Every result the memory store returned is a context item
\* of the run, in the store's order, with relevance 1.0 when the result has
\* no score; no result empties or shortens the sequence.
C27_ResultsDefaultedNotExcluded ==
  \A i \in Runs :
    LET r == tasks[i]
    IN  r.searchOut.kind = "results" =>
          /\ Len(r.context) = Len(r.searchOut.results)
          /\ \A k \in 1..Len(r.context) :
               /\ r.context[k].content = r.searchOut.results[k].content
               /\ r.context[k].relevance =
                    (IF r.searchOut.results[k].score = "absent" THEN DefaultRelevance
                     ELSE r.searchOut.results[k].score)

\* C28 (SpecRun): the request generate builds carries the raw message text
\* and a window of at most 3 context items: the last 3 of the retrieved
\* sequence in their retrieved order, all of them when fewer than 3 were
\* retrieved.
C28_LastThreeWindow ==
  \A i \in Runs :
    \A k \in 1..Len(tasks[i].difyReq) :
      LET r == tasks[i]
          window == r.difyReq[k].inputs.conversation_history
          n == Len(r.context)
          w == IF n < 3 THEN n ELSE 3
      IN  /\ r.difyReq[k].query = r.message
          /\ Len(window) = w
          /\ \A m \in 1..w : window[m] = r.context[n - w + m]

C28_Witness ==
  \E i \in Runs :
    /\ Len(tasks[i].context) = DefaultLimit + 1
    /\ Len(tasks[i].difyReq) = 1
    /\ tasks[i].difyReq[1].inputs.conversation_history =
         SubSeq(tasks[i].context, DefaultLimit - 1, DefaultLimit + 1)
    /\ tasks[i].difyReq[1].inputs.conversation_history[1] # tasks[i].context[1]

\* C29 (Spec): the session identifier sent to the RAG backend depends on the
\* conversation identity alone: any two requests, of one run or of two, carry
\* the same identifier exactly when their runs have the same conversation
\* identity.
C29_SessionIdPerConversation ==
  \A i \in Runs, j \in Runs :
    \A k \in 1..Len(tasks[i].difyReq), m \in 1..Len(tasks[j].difyReq) :
      (tasks[i].difyReq[k].conversation_id = tasks[j].difyReq[m].conversation_id)
        <=> (tasks[i].phone = tasks[j].phone)

C29_Witness ==
  \E i \in Runs, j \in Runs :
    /\ i < j
    /\ tasks[i].phone = tasks[j].phone
    /\ Len(tasks[i].difyReq) = 1
    /\ Len(tasks[j].difyReq) = 1
    /\ tasks[i].difyReq[1].conversation_id = tasks[j].difyReq[1].conversation_id
    /\ tasks[i].difyOut # tasks[j].difyOut
    /\ tasks[i].difyOut # Pending
    /\ tasks[j].difyOut # Pending

\* C30 (SpecCore): Episodes are append-only.  Every step of the service, a
\* webhook request, a step of a run, a stats request or a health request,
\* leaves each recorded Episode in place and unchanged: the store after the
\* step begins with the store before it.
C30_EpisodesAppendOnly ==
  [][IsPrefix(episodes, episodes')]_vars

C30_Witness ==
  /\ Len(episodes) = 2
  /\ lastReply.path = "stats"
  /\ lastReply.response = get_user_stats(SplitAtFirst(Jid51), SearchReturns(<<EpisodePlain>>))
  /\ \A i \in Runs : tasks[i].pc = "done"

\* C31 (Spec): the uniqueness component of the Episode identifier is the
\* time of recording, not the time of the inbound message: two runs of one
\* conversation whose messages carry the same gateway timestamp, and which
\* both recorded, gave their Episodes different names.
C31_NameUniqueAtEqualMessageTime ==
  \A i \in Runs, j \in Runs :
    (/\ i # j
     /\ tasks[i].phone = tasks[j].phone
     /\ tasks[i].timestamp = tasks[j].timestamp
     /\ tasks[i].episodeAt > 0
     /\ tasks[j].episodeAt > 0)
    => episodes[tasks[i].episodeAt].name # episodes[tasks[j].episodeAt].name

\* run j is the run of a replay of the webhook that started run i: the
\* handler reads no message id (data.key.id), so the replay of a message is
\* the same payload, and its task has the same arguments
Replay(i, j) ==
  /\ i < j
  /\ tasks[i].phone = tasks[j].phone
  /\ tasks[i].message = tasks[j].message
  /\ tasks[i].timestamp = tasks[j].timestamp

\* the request that was just answered is a replay: a task with the message of
\* its event was there before it
ReplayReceived ==
  /\ accepted' = accepted + 1
  /\ \E i \in Runs : webhook_handler(lastEvent').added[1] =
                       [phone |-> tasks[i].phone, message |-> tasks[i].message,
                        timestamp |-> tasks[i].timestamp]

\* a replayed webhook is accepted again and starts a second run
ReplayAccepted ==
  ReplayReceived =>
    /\ lastAck' = SuccessAck
    /\ Len(tasks') = Len(tasks) + 1
    /\ tasks'[Len(tasks')] = NewRun(webhook_handler(lastEvent').added[1])

\* each run of a replay pair generates a reply of its own and sends it
ReplayRegenerates(k) ==
  /\ tasks[k].searchOut # Pending => Len(tasks[k].difyReq) = 1
  /\ tasks[k].difyOut # Pending => Len(tasks[k].sends) = 1

\* the two runs of a replay pair each added an Episode, and the two Episodes
\* carry the same name and the same user text
DuplicateEpisode(i, j) ==
  /\ tasks[i].episodeAt > 0
  /\ tasks[j].episodeAt > 0
  /\ tasks[i].episodeAt # tasks[j].episodeAt
  /\ episodes[tasks[i].episodeAt].name = episodes[tasks[j].episodeAt].name
  /\ episodes[tasks[i].episodeAt].episode_body[4] = episodes[tasks[j].episodeAt].episode_body[4]

\* C32 as stated (Spec): there is no deduplication on the message id: a
\* replayed webhook is accepted again and starts a second run, which
\* generates and sends a reply again, and when the replies of both runs were
\* delivered the store holds a duplicate Episode.
C32_ReplayAsStated ==
  /\ [][ReplayAccepted]_vars
  /\ [](\A i \in Runs, j \in Runs :
         Replay(i, j) =>
           /\ ReplayRegenerates(i) /\ ReplayRegenerates(j)
           /\ (/\ tasks[i].pc = "done" /\ tasks[j].pc = "done"
               /\ DeliverySucceeded(tasks[i].gwOut) /\ DeliverySucceeded(tasks[j].gwOut))
              => DuplicateEpisode(i, j))

\* C32 amended (Spec): there is no deduplication on the message id: a
\* replayed webhook is accepted again and starts a second run, which
\* generates and sends a reply again, and when the replies of both runs were
\* delivered and the memory store accepted both writes the store holds a
\* duplicate Episode.
C32_ReplayNotDeduplicated ==
  /\ [][ReplayAccepted]_vars
  /\ [](\A i \in Runs, j \in Runs :
         Replay(i, j) =>
           /\ ReplayRegenerates(i) /\ ReplayRegenerates(j)
           /\ (/\ tasks[i].pc = "done" /\ tasks[j].pc = "done"
               /\ DeliverySucceeded(tasks[i].gwOut) /\ DeliverySucceeded(tasks[j].gwOut)
               /\ tasks[i].writeOut = WriteReturns /\ tasks[j].writeOut = WriteReturns)
              => DuplicateEpisode(i, j))

C32_Witness ==
  \E i \in Runs, j \in Runs :
    /\ Replay(i, j)
    /\ tasks[i].pc = "done" /\ tasks[j].pc = "done"
    /\ Len(tasks[i].sends) = 1 /\ Len(tasks[j].sends) = 1
    /\ DeliverySucceeded(tasks[i].gwOut) /\ DeliverySucceeded(tasks[j].gwOut)
    /\ DuplicateEpisode(i, j)
    /\ Len(episodes) = 2

\* the Context Items the search of the stats request retrieved
StatsItems(phone, out) == get_conversation_context(phone, StatsLimit, out).value

\* the answer of a stats request: the identity as given, the number of
\* Context Items of a search with limit 100, the first five of them at most,
\* and no error
StatsAnswer ==
  lastReply.path = "stats" =>
    LET out == lastReply.searchOut
        resp == lastReply.response
        items == StatsItems(lastReply.phone, out)
        n == Len(items)
    IN  /\ lastReply.searchReq.num_results = StatsLimit
        /\ DOMAIN resp = {"phone", "total_interactions", "recent_interactions"}
        /\ resp.phone = lastReply.phone
        /\ resp.total_interactions = n
        /\ Len(resp.recent_interactions) = (IF n <= 5 THEN n ELSE 5)
        /\ \A k \in 1..Len(resp.recent_interactions) :
              resp.recent_interactions[k] = items[k]
        /\ out.kind = "raise" =>
              resp.total_interactions = 0 /\ resp.recent_interactions = << >>

\* a stats request changes no run, so posts nothing to the gateway, and
\* leaves the store as it is
StatsReadOnly ==
  (lastReply' # lastReply /\ lastReply'.path = "stats") => UNCHANGED <<tasks, episodes>>

\* C33 (SpecCore): the stats endpoint answers with the identity, with
\* total_interactions the number of Context Items retrieved with limit 100
\* and with recent_interactions the first five of them at most; it answers
\* without error when the store is unreachable, with a total of zero and an
\* empty list; it never sends a message and never records an Episode.
C33_StatsReadOnlySummary == []StatsAnswer /\ [][StatsReadOnly]_vars

C33_Witness ==
  /\ lastReply.path = "stats"
  /\ lastReply.searchOut = SearchOverLimit
  /\ lastReply.response.total_interactions = 6
  /\ Len(lastReply.response.recent_interactions) = 5
  /\ Len(episodes) = 1

\* run r has issued no call to the memory store, the RAG backend or the
\* gateway, and none has answered it
NoCallIssued(r) ==
  /\ r.pc = "scheduled"
  /\ r.starts = 0
  /\ r.trace = << >>
  /\ r.searchReq = << >> /\ r.difyReq = << >> /\ r.sends = << >>
  /\ r.searchOut = Pending /\ r.difyOut = Pending /\ r.gwOut = Pending /\ r.writeOut = Pending

\* C34 (SpecIngest): the Webhook Ingestor performs no network I/O: from the
\* event it receives to the acknowledgment it returns, it issues no call to
\* the memory store, the RAG backend or the gateway; its only effect is the
\* unit of work it submits, which has issued no call when the acknowledgment
\* is returned.
C34_IngestorNoNetworkIO ==
  [][ /\ episodes' = episodes
      /\ Len(tasks') = Len(tasks) + lastAdded'
      /\ \A i \in 1..Len(tasks) : tasks'[i] = tasks[i]
      /\ \A i \in (Len(tasks) + 1)..Len(tasks') : NoCallIssued(tasks'[i])
      /\ app' = app /\ lastReply' = lastReply ]_vars

C34_Witness ==
  /\ IsAccepted(lastEvent)
  /\ lastAck = SuccessAck
  /\ lastAdded = 1
  /\ Len(tasks) = 1
  /\ NoCallIssued(tasks[1])
  /\ episodes = << >>

FallbackTexts == {NoAnswerText, BackendErrorText, TransportErrorText}

\* generate gave run r one of the fallback apologies, not an answer of the
\* RAG backend
GaveFallback(r) ==
  /\ r.difyOut # Pending
  /\ ~ RagAnswered(r.difyOut)
  /\ r.response # Unset
  /\ r.response.type = "str"
  /\ r.response.val \in FallbackTexts

\* run r added an Episode whose body holds the user's text and the fallback
\* text, which is the text posted to the gateway
FallbackRecorded(r) ==
  /\ r.episodeAt > 0
  /\ episodes[r.episodeAt].episode_body[4] = r.message
  /\ episodes[r.episodeAt].episode_body[6] = r.response.val
  /\ Len(r.sends) = 1
  /\ r.sends[1].text = Str(episodes[r.episodeAt].episode_body[6])

\* C35 as stated (SpecRun): a fallback reply is treated like any other
\* reply: when generate returned a fallback apology and the gateway
\* delivered it, the run, once ended, has recorded an Episode whose body
\* holds the user's message and that fallback text, the text that was sent.
C35_FallbackRecordedAsStated ==
  \A i \in Runs :
    (/\ tasks[i].pc = "done"
     /\ GaveFallback(tasks[i])
     /\ DeliverySucceeded(tasks[i].gwOut))
    => FallbackRecorded(tasks[i])

\* C35 amended (SpecRun): when generate returned a fallback apology and the
\* gateway delivered it, the run, once ended, has recorded an Episode whose
\* body holds the user's message and that fallback text, the text that was
\* sent, if the message's timestamp is one datetime can represent and the
\* write to the memory store succeeded, and has recorded none otherwise.
C35_FallbackRecorded ==
  \A i \in Runs :
    (/\ tasks[i].pc = "done"
     /\ GaveFallback(tasks[i])
     /\ DeliverySucceeded(tasks[i].gwOut))
    => IF ~ FromTimestamp(tasks[i].timestamp).raised /\ tasks[i].writeOut = WriteReturns
       THEN FallbackRecorded(tasks[i])
       ELSE tasks[i].episodeAt = 0 /\ episodes = << >>

C35_Witness ==
  \E i \in Runs :
    /\ tasks[i].pc = "done"
    /\ tasks[i].difyOut = DifyResponds(500, "object", FALSE, None)
    /\ tasks[i].response = Str(BackendErrorText)
    /\ tasks[i].gwOut = GatewayResponds(201)
    /\ FallbackRecorded(tasks[i])

\* the RAG backend answered 200 with a JSON object that has no answer field
NoAnswerField(out) ==
  /\ out.kind = "response"
  /\ out.status = 200
  /\ out.body = "object"
  /\ ~ out.answer.present

\* what a run does with the reply generate returned: it posts that reply to
\* the gateway, once, and it goes on to the record step exactly when the
\* gateway took the post and the timestamp of the message is a datetime, the
\* Episode the store accepts holding that reply
SentAndRecorded(r) ==
  /\ Entered(r, "send")
  /\ Len(r.sends) = 1
  /\ r.sends[1] = [number |-> r.phone, text |-> r.response]
  /\ r.pc = "done" =>
       /\ Entered(r, "record") <=>
            (DeliverySucceeded(r.gwOut) /\ ~ FromTimestamp(r.timestamp).raised)
       /\ r.episodeAt > 0 <=> (Entered(r, "record") /\ r.writeOut = WriteReturns)
       /\ r.episodeAt > 0 =>
            episodes[r.episodeAt].episode_body[6] = Format(r.response)

\* C36 (SpecRun): when the RAG backend answers 200 with a body that has no
\* answer field, the reply is a third fixed apology, which is neither the
\* backend-error text nor the transport-failure text, and the run goes on to
\* send and record it as it does for a normal answer.
C36_NoAnswerFieldApology ==
  \A i \in Runs :
    LET r == tasks[i]
    IN  /\ NoAnswerField(r.difyOut) =>
              /\ r.response = Str(NoAnswerText)
              /\ r.response # Str(BackendErrorText)
              /\ r.response # Str(TransportErrorText)
              /\ ~ r.raised /\ r.caught \in {<< >>, <<"ValueError">>}
        /\ (NoAnswerField(r.difyOut) \/ RagAnswered(r.difyOut)) => SentAndRecorded(r)

C36_Witness ==
  \E i \in Runs :
    /\ tasks[i].pc = "done"
    /\ tasks[i].difyOut = DifyResponds(200, "object", FALSE, None)
    /\ tasks[i].sends = <<[number |-> tasks[i].phone, text |-> Str(NoAnswerText)]>>
    /\ tasks[i].gwOut = GatewayResponds(200)
    /\ tasks[i].episodeAt = 1
    /\ episodes[1].episode_body[6] = NoAnswerText

\* the pushes of the log, and its waits, in order
Pushes == SelectSeq(git.log, LAMBDA e : e.op = "push")
Sleeps == SelectSeq(git.log, LAMBDA e : e.op = "sleep")

\* what follows a failed push of the given attempt is a wait of delay seconds
WaitsAfter(attempt, delay) ==
  \A k \in 1..Len(git.log) :
    (git.log[k].op = "push" /\ git.log[k].rc # 0 /\ git.log[k].attempt = attempt) =>
      (k < Len(git.log) /\ git.log[k + 1] = [op |-> "sleep", delay |-> delay])

\* C37 (SpecGit): git_commit_and_push pushes only after a successful commit;
\* it makes at most 4 push attempts and stops at the first that succeeds; it
\* waits 2, 4 and 8 seconds after the first, second and third failed attempt,
\* before the next one, and does not wait after the fourth; when all 4
\* attempts fail it returns, without raising.
C37_PushRetries ==
  /\ git.log # << >> => git.commitRc = 0
  /\ Len(Pushes) <= 4
  /\ \A k \in 1..Len(Pushes) :
        /\ Pushes[k].attempt = k
        /\ Pushes[k].rc = 0 => (k = Len(Pushes) /\ git.pc = "returned")
  /\ WaitsAfter(1, 2) /\ WaitsAfter(2, 4) /\ WaitsAfter(3, 8)
  /\ \A k \in 1..Len(git.log) :
        /\ (git.log[k].op = "push" /\ git.log[k].rc # 0 /\ git.log[k].attempt = 4) =>
              (k = Len(git.log) /\ git.pc = "returned")
        /\ git.log[k].op = "sleep" =>
              (k > 1 /\ git.log[k - 1].op = "push" /\ git.log[k - 1].rc # 0)
  /\ Len(Sleeps) <= 3
  /\ (git.pc = "push" /\ git.log # << >>) => git.log[Len(git.log)].op = "sleep"

C37_Witness ==
  /\ git.pc = "returned"
  /\ git.commitRc = 0
  /\ Len(Pushes) = 4
  /\ \A k \in 1..4 : Pushes[k].rc # 0
  /\ [k \in 1..Len(Sleeps) |-> Sleeps[k].delay] = <<2, 4, 8>>

====
